---- MODULE Spec2Model ----
(***************************************************************************)
(* DataPreprocessor of notebooks/feature_selection.ipynb: a sparse feature *)
(* file (one line per sample, whitespace-separated active feature indices) *)
(* and a parallel label file are turned into one dense pandas table.       *)
(*                                                                         *)
(* A file is a record [exists, lines].  A line is the sequence of its       *)
(* whitespace-separated tokens, a token is a sequence of characters; a     *)
(* line of the label file holds one token, or none when it is blank.       *)
(* A pandas cell is <<v>> for the number v and <<>> for NaN.  An optional  *)
(* table (self.df, a returned value) is <<>> for None and <<t>> for t.     *)
(***************************************************************************)
EXTENDS Integers, Sequences, FiniteSets, TLC

\* Bounds of the explored input files: lines of the feature file, tokens in
\* the whole feature file, lines of the label file.
MaxLines == 2
MaxTokens == 2
MaxLabels == 2
\* Invocations counted since the files last changed (the count saturates).
MaxRuns == 2

\* int(feature) parses in base 10.
Base == 10

\* Tokens met on a line of the feature file: indices int() accepts (one of
\* several digits, one signed) and a token it rejects.
Tokens == {<<"2">>, <<"1", "0">>, <<"-", "1">>, <<"x">>}
\* Lines of the label file: the labels 1 and -1, and a blank line.
LabelLines == {<< <<"1">> >>, << <<"-", "1">> >>, <<>>}

FeaturesPath == "dorothea_train.data"
TargetsPath == "dorothea_train.labels"
Paths == {FeaturesPath, TargetsPath}

Range(s) == {s[i] : i \in DOMAIN s}
Min(S) == CHOOSE x \in S : \A y \in S : x <= y

(***************************************************************************)
(* Python int(str), base 10: an optional sign followed by decimal digits.  *)
(***************************************************************************)
Digits == <<"0", "1", "2", "3", "4", "5", "6", "7", "8", "9">>
IsDigit(c) == \E i \in DOMAIN Digits : Digits[i] = c
DigitVal(c) == (CHOOSE i \in DOMAIN Digits : Digits[i] = c) - 1

RECURSIVE DigitsValue(_)
DigitsValue(s) ==
    IF s = <<>> THEN 0
    ELSE DigitsValue(SubSeq(s, 1, Len(s) - 1)) * Base + DigitVal(s[Len(s)])

HasSign(tok) == tok # <<>> /\ tok[1] \in {"+", "-"}
IntBody(tok) == IF HasSign(tok) THEN Tail(tok) ELSE tok
\* int(tok) raises ValueError exactly when IntValid(tok) is false.
IntValid(tok) ==
    /\ IntBody(tok) # <<>>
    /\ \A i \in DOMAIN IntBody(tok) : IsDigit(IntBody(tok)[i])
\* int() dropping the sign of the literal.
IntOfUnsigned(tok) == DigitsValue(IntBody(tok))

IntOf(tok) ==
    IF HasSign(tok) /\ tok[1] = "-" THEN 0 - DigitsValue(IntBody(tok))
    ELSE DigitsValue(IntBody(tok))

(***************************************************************************)
(* pandas values: axis labels, cells, Series and DataFrames.               *)
(***************************************************************************)
IntLabel(k) == [kind |-> "int", int |-> k, str |-> ""]
StrLabel(s) == [kind |-> "str", int |-> 0, str |-> s]
NaN == <<>>
Num(v) == <<v>>
None == <<>>
Some(t) == <<t>>

RangeIndex(n) == [i \in 1..n |-> IntLabel(i - 1)]
Position(seq, x) == CHOOSE i \in DOMAIN seq : seq[i] = x

\* Keys of the dict {int(feature): 1 for feature in active_features}, in
\* insertion order; a key met again keeps its first position.
RECURSIVE DictKeys(_)
DictKeys(active_features) ==
    IF active_features = <<>> THEN <<>>
    ELSE LET before == DictKeys(SubSeq(active_features, 1, Len(active_features) - 1))
             key == IntLabel(IntOf(active_features[Len(active_features)]))
         IN  IF key \in Range(before) THEN before ELSE Append(before, key)

\* pd.Series({int(feature): 1 for feature in active_features})
Series(active_features) ==
    LET keys == DictKeys(active_features)
    IN  [index |-> keys, values |-> [i \in DOMAIN keys |-> Num(1)]]

\* The for loop over the lines of the feature file: the Series appended to
\* data, or the ValueError of the first token int() rejects.
RECURSIVE ReadFeatures(_, _)
ReadFeatures(lines, data) ==
    IF lines = <<>> THEN [exc |-> "", arg |-> <<>>, data |-> data]
    ELSE LET active_features == Head(lines)
             bad == {i \in DOMAIN active_features : ~IntValid(active_features[i])}
         IN  IF bad # {}
             THEN [exc |-> "ValueError", arg |-> active_features[Min(bad)], data |-> data]
             ELSE ReadFeatures(Tail(lines), Append(data, Series(active_features)))

\* Union of the indexes of the concatenated objects, in order of appearance.
RECURSIVE UnionIndex(_)
UnionIndex(indexes) ==
    IF indexes = <<>> THEN <<>>
    ELSE LET before == UnionIndex(SubSeq(indexes, 1, Len(indexes) - 1))
             last == indexes[Len(indexes)]
         IN  before \o SelectSeq(last, LAMBDA l : l \notin Range(before))

\* A concat that takes an empty list for an empty frame.
ConcatAcceptsEmpty(objs) == FALSE

\* pd.concat(objs) raises ValueError("No objects to concatenate") when objs
\* is empty.
ConcatRaises(objs) == objs = <<>>

\* pd.concat(data, axis=1): one column per Series, labelled 0..n-1, one row
\* per label of the union of their indexes, NaN where a Series lacks it.
ConcatSeries(data) ==
    LET index == UnionIndex([i \in DOMAIN data |-> data[i].index])
    IN  [index |-> index,
         columns |-> RangeIndex(Len(data)),
         values |-> [r \in DOMAIN index |->
                      [c \in DOMAIN data |->
                        IF index[r] \in Range(data[c].index)
                        THEN data[c].values[Position(data[c].index, index[r])]
                        ELSE NaN]]]

\* DataFrame.T
Transpose(frame) ==
    [index |-> frame.columns,
     columns |-> frame.index,
     values |-> [r \in DOMAIN frame.columns |->
                  [c \in DOMAIN frame.index |-> frame.values[c][r]]]]

\* DataFrame.fillna(value)
FillNa(frame, value) ==
    [frame EXCEPT !.values =
        [r \in DOMAIN frame.index |->
          [c \in DOMAIN frame.columns |->
            IF frame.values[r][c] = NaN THEN Num(value) ELSE frame.values[r][c]]]]

\* The labels of an integer axis in ascending order.
RECURSIVE SortedLabels(_)
SortedLabels(S) ==
    IF S = {} THEN <<>>
    ELSE LET least == CHOOSE l \in S : \A m \in S : l.int <= m.int
         IN  <<least>> \o SortedLabels(S \ {least})

\* sort_index left out: the columns stay in their order of appearance.
NoSortIndex(frame) == frame

\* DataFrame.sort_index(axis=1)
SortIndexAxis1(frame) ==
    LET columns == SortedLabels(Range(frame.columns))
    IN  [index |-> frame.index,
         columns |-> columns,
         values |-> [r \in DOMAIN frame.index |->
                      [c \in DOMAIN columns |->
                        frame.values[r][Position(frame.columns, columns[c])]]]]

\* read_csv without names=: the one column gets the default label 0.
ReadCsvUnnamed(lines) ==
    LET records == SelectSeq(lines, LAMBDA l : l # <<>>)
    IN  IF records = <<>>
        THEN [exc |-> "EmptyDataError", frame |-> None]
        ELSE [exc |-> "",
              frame |-> Some([index |-> RangeIndex(Len(records)),
                              columns |-> <<IntLabel(0)>>,
                              values |-> [r \in DOMAIN records |-> <<Num(IntOf(records[r][1]))>>]])]

\* pd.read_csv(targets_file, header=None, names=["target"]): blank lines are
\* skipped (skip_blank_lines defaults to True), a file with no record raises
\* EmptyDataError.
ReadCsv(lines) ==
    LET records == SelectSeq(lines, LAMBDA l : l # <<>>)
    IN  IF records = <<>>
        THEN [exc |-> "EmptyDataError", frame |-> None]
        ELSE [exc |-> "",
              frame |-> Some([index |-> RangeIndex(Len(records)),
                              columns |-> <<StrLabel("target")>>,
                              values |-> [r \in DOMAIN records |-> <<Num(IntOf(records[r][1]))>>]])]

\* The same concatenation with join="inner": only the row labels that both
\* frames have.
ConcatFramesInner(features, targets) ==
    LET index == SelectSeq(features.index, LAMBDA l : l \in Range(targets.index))
        RowOf(frame, r) == frame.values[Position(frame.index, index[r])]
    IN  [index |-> index,
         columns |-> features.columns \o targets.columns,
         values |-> [r \in DOMAIN index |-> RowOf(features, r) \o RowOf(targets, r)]]

\* pd.concat([features, targets], axis=1): the columns of both, one row per
\* label of the union of the two indexes (join="outer"), NaN where a frame
\* has no row of that label.
ConcatFrames(features, targets) ==
    LET index == UnionIndex(<<features.index, targets.index>>)
        RowOf(frame, r) ==
            IF index[r] \in Range(frame.index)
            THEN frame.values[Position(frame.index, index[r])]
            ELSE [c \in DOMAIN frame.columns |-> NaN]
    IN  [index |-> index,
         columns |-> features.columns \o targets.columns,
         values |-> [r \in DOMAIN index |-> RowOf(features, r) \o RowOf(targets, r)]]

\* DataFrame.drop(label, axis=1): the frame without the columns of that label.
Drop(frame, label) ==
    LET kept == SelectSeq([c \in DOMAIN frame.columns |-> c],
                          LAMBDA c : frame.columns[c] # label)
    IN  [index |-> frame.index,
         columns |-> [c \in DOMAIN kept |-> frame.columns[kept[c]]],
         values |-> [r \in DOMAIN frame.index |->
                      [c \in DOMAIN kept |-> frame.values[r][kept[c]]]]]

(***************************************************************************)
(* State: the two files, the object, the outcome of the latest invocation  *)
(* and the file operations it performed.  History: runs counts the         *)
(* invocations since a file last changed (since construction at first),    *)
(* built tells whether some invocation has returned.                       *)
(***************************************************************************)
VARIABLES fs, self, result, io, runs, built

vars == <<fs, self, result, io, runs, built>>

(***************************************************************************)
(* Exceptions and the DataPreprocessor class.                              *)
(***************************************************************************)
NoError == [exc |-> "", msg |-> "", token |-> <<>>, path |-> ""]
FileNotFoundError(path) ==
    [exc |-> "FileNotFoundError", msg |-> "No such file or directory",
     token |-> <<>>, path |-> path]
InvalidLiteral(token) ==
    [exc |-> "ValueError", msg |-> "invalid literal for int() with base 10",
     token |-> token, path |-> ""]
NoObjects ==
    [exc |-> "ValueError", msg |-> "No objects to concatenate",
     token |-> <<>>, path |-> ""]
EmptyDataError ==
    [exc |-> "EmptyDataError", msg |-> "No columns to parse from file",
     token |-> <<>>, path |-> ""]

\* features = pd.concat(data, axis=1).T.fillna(0).sort_index(axis=1)
Features(data) == SortIndexAxis1(FillNa(Transpose(ConcatSeries(data)), 0))

\* The table stacked under the one already stored instead of replacing it.
StoreStacked(obj, table) ==
    IF obj.df = None THEN [obj EXCEPT !.df = Some(table)]
    ELSE [obj EXCEPT !.df = Some([index |-> obj.df[1].index \o table.index,
                                  columns |-> table.columns,
                                  values |-> obj.df[1].values \o table.values])]

\* self.df = <table>
Store(obj, table) == [obj EXCEPT !.df = Some(table)]

\* f = open(...) and f.close() around the loop, without with: the file
\* stays open when the loop raises.
OpenThenClose(lines) ==
    LET read == ReadFeatures(lines, <<>>)
    IN  [read |-> read,
         io |-> IF read.exc # "" THEN <<"open features_file">>
                ELSE <<"open features_file", "close features_file">>]

\* with open(self.features_file, 'r') as f: the loop over the lines; f is
\* closed when the block is left, by an exception too.
WithOpen(lines) ==
    [read |-> ReadFeatures(lines, <<>>),
     io |-> <<"open features_file", "close features_file">>]

\* DataPreprocessor._preprocess on the object obj and the file system files:
\* the exception that leaves it (NoError when it returns), the object as it
\* is left, and the file operations performed.
Preprocess(obj, files) ==
    LET ffile == files[obj.features_file]
        tfile == files[obj.targets_file]
        opened == WithOpen(ffile.lines)
        read == opened.read
        scoped == opened.io
        targets == ReadCsv(tfile.lines)
    IN  IF ~ffile.exists
        THEN [error |-> FileNotFoundError(obj.features_file), obj |-> obj, io |-> <<>>]
        ELSE IF read.exc # ""
        THEN [error |-> InvalidLiteral(read.arg), obj |-> obj, io |-> scoped]
        ELSE IF ConcatRaises(read.data)
        THEN [error |-> NoObjects, obj |-> obj, io |-> scoped]
        ELSE IF ~tfile.exists
        THEN [error |-> FileNotFoundError(obj.targets_file), obj |-> obj, io |-> scoped]
        ELSE IF targets.exc # ""
        THEN [error |-> EmptyDataError, obj |-> obj,
              io |-> Append(scoped, "read targets_file")]
        ELSE [error |-> NoError,
              obj |-> Store(obj, ConcatFrames(Features(read.data), targets.frame[1])),
              io |-> Append(scoped, "read targets_file")]

NoResult == [kind |-> "none", df |-> None, error |-> NoError]
Returned(df) == [kind |-> "returned", df |-> df, error |-> NoError]
Raised(error) == [kind |-> "raised", df |-> None, error |-> error]

\* __call__ clearing self.df before it builds.
InvokeReset(obj, files) ==
    LET run == Preprocess([obj EXCEPT !.df = None], files)
    IN  [obj |-> run.obj,
         outcome |-> IF run.error = NoError THEN Returned(run.obj.df)
                     ELSE Raised(run.error),
         io |-> run.io]

\* __call__ swallowing the exception of _preprocess and returning self.df.
InvokeSwallow(obj, files) ==
    LET run == Preprocess(obj, files)
    IN  [obj |-> run.obj, outcome |-> Returned(run.obj.df), io |-> run.io]

\* DataPreprocessor.__call__: self._preprocess(), then return self.df; an
\* exception of _preprocess leaves __call__ uncaught.
Invoke(obj, files) ==
    LET run == Preprocess(obj, files)
    IN  [obj |-> run.obj,
         outcome |-> IF run.error = NoError THEN Returned(run.obj.df)
                     ELSE Raised(run.error),
         io |-> run.io]

\* __init__ building the table at once from the files as they are.
EagerInit(features_file, targets_file) ==
    Preprocess([features_file |-> features_file, targets_file |-> targets_file,
                df |-> None], fs).obj

\* DataPreprocessor.__init__
DataPreprocessorInit(features_file, targets_file) ==
    [features_file |-> features_file, targets_file |-> targets_file, df |-> None]

(***************************************************************************)
(* The files the object may meet.                                          *)
(***************************************************************************)
Missing == [exists |-> FALSE, lines |-> <<>>]
File(lines) == [exists |-> TRUE, lines |-> lines]

SeqsUpTo(S, n) == UNION {[1..m -> S] : m \in 0..n}
RECURSIVE TokenCount(_)
TokenCount(lines) ==
    IF lines = <<>> THEN 0 ELSE Len(Head(lines)) + TokenCount(Tail(lines))

FeatureLines == SeqsUpTo(Tokens, MaxTokens)
\* The texts of at most n lines and at most budget tokens in all.
RECURSIVE Texts(_, _)
Texts(n, budget) ==
    IF n = 0 THEN {<<>>}
    ELSE {<<>>} \cup
         UNION {{<<line>> \o rest : rest \in Texts(n - 1, budget - Len(line))} :
                  line \in SeqsUpTo(Tokens, budget)}
FeatureFiles == {Missing} \cup {File(lines) : lines \in Texts(MaxLines, MaxTokens)}
LabelFiles == {Missing} \cup {File(lines) : lines \in SeqsUpTo(LabelLines, MaxLabels)}

\* wrangler = DataPreprocessor(features_file, targets_file), whatever the two
\* files hold at that time.
Init ==
    /\ \E features \in FeatureFiles, targets \in LabelFiles :
          fs = [path \in Paths |-> IF path = FeaturesPath THEN features ELSE targets]
    /\ self = DataPreprocessorInit(FeaturesPath, TargetsPath)
    /\ result = NoResult
    /\ io = <<>>
    /\ runs = 0
    /\ built = FALSE

\* df = wrangler()
Call ==
    LET call == Invoke(self, fs)
    IN  /\ self' = call.obj
        /\ result' = call.outcome
        /\ io' = call.io
        /\ runs' = IF runs < MaxRuns THEN runs + 1 ELSE runs
        /\ built' = (built \/ call.outcome.kind = "returned")
        /\ UNCHANGED fs

Written ==
    /\ runs' = 0
    /\ UNCHANGED <<self, result, io, built>>

\* The environment appends a line to the feature file (a file that holds
\* lines: one emptied or removed stays so).
AppendFeatureLine ==
    \E line \in FeatureLines :
        /\ fs[FeaturesPath].exists
        /\ fs[FeaturesPath].lines # <<>>
        /\ Len(fs[FeaturesPath].lines) < MaxLines
        /\ TokenCount(fs[FeaturesPath].lines) + Len(line) <= MaxTokens
        /\ fs' = [fs EXCEPT ![FeaturesPath].lines = Append(@, line)]
        /\ Written

\* The environment appends a line to the label file (a file that holds
\* lines).
AppendLabelLine ==
    \E line \in LabelLines :
        /\ fs[TargetsPath].exists
        /\ fs[TargetsPath].lines # <<>>
        /\ Len(fs[TargetsPath].lines) < MaxLabels
        /\ fs' = [fs EXCEPT ![TargetsPath].lines = Append(@, line)]
        /\ Written

\* The environment removes one of the files.
RemoveFile ==
    \E path \in Paths :
        /\ fs[path].exists
        /\ fs' = [fs EXCEPT ![path] = Missing]
        /\ Written

\* The environment rewrites one of the files as an empty file.
TruncateFile ==
    \E path \in Paths :
        /\ fs[path].exists
        /\ fs[path].lines # <<>>
        /\ fs' = [fs EXCEPT ![path] = File(<<>>)]
        /\ Written

Next == Call \/ AppendFeatureLine \/ AppendLabelLine \/ RemoveFile \/ TruncateFile

Spec == Init /\ [][Next]_vars

(***************************************************************************)
(* Properties.  They speak of the table the latest invocation returned and *)
(* of the files it read: runs >= 1 says the files are as it read them.     *)
(***************************************************************************)
FLines == fs[FeaturesPath].lines
LLines == fs[TargetsPath].lines
BuiltNow == runs >= 1 /\ result.kind = "returned"
Table == result.df[1]
FeatureCols(t) == {c \in DOMAIN t.columns : t.columns[c].kind = "int"}
IndicesOn(line) == {IntOf(line[k]) : k \in DOMAIN line}
Indicator(b) == IF b THEN Num(1) ELSE Num(0)

\* C1: in every returned table, for every row i and feature column c, the
\* cell (i, c) is 1 if index c occurs among the tokens of line i of the
\* feature file and 0 otherwise.
C1_CellsFollowTokens ==
    BuiltNow =>
        \A i \in DOMAIN Table.values : \A c \in FeatureCols(Table) :
            Table.values[i][c] =
                Indicator(i \in DOMAIN FLines /\ Table.columns[c].int \in IndicesOn(FLines[i]))

\* C2: the feature columns of a returned table are exactly the union of the
\* indices on the lines of the feature file, in strictly ascending order,
\* and the label column comes after all of them.
C2_ColumnsSortedUnion ==
    BuiltNow =>
        LET n == Len(Table.columns)
        IN  /\ n >= 1
            /\ Table.columns[n] = StrLabel("target")
            /\ FeatureCols(Table) = 1..(n - 1)
            /\ {Table.columns[c].int : c \in 1..(n - 1)} =
                   UNION {IndicesOn(FLines[i]) : i \in DOMAIN FLines}
            /\ \A c, d \in 1..(n - 1) :
                   c < d => Table.columns[c].int < Table.columns[d].int

\* C2's case: a returned table built from a line that lists a larger index
\* before a smaller one.
C2_Witness ==
    /\ BuiltNow
    /\ \E i \in DOMAIN FLines :
          Len(FLines[i]) >= 2 /\ IntOf(FLines[i][1]) > IntOf(FLines[i][2])

\* C3: row i of a returned table holds the feature values of line i of the
\* feature file and the label of line i of the label file, for every i.
C3_RowsJoinedByPosition ==
    BuiltNow =>
        \A i \in DOMAIN Table.values \cup DOMAIN FLines \cup DOMAIN LLines :
            /\ i \in DOMAIN Table.values
            /\ i \in DOMAIN FLines
            /\ i \in DOMAIN LLines
            /\ \A c \in FeatureCols(Table) :
                   Table.values[i][c] =
                       Indicator(Table.columns[c].int \in IndicesOn(FLines[i]))
            /\ LLines[i] # <<>>
            /\ Table.values[i][Len(Table.columns)] = Num(IntOf(LLines[i][1]))

\* C4: when the two files have different numbers of lines the invocation
\* raises and returns no table.
C4_MismatchIsFatal ==
    (/\ runs >= 1
     /\ fs[FeaturesPath].exists
     /\ fs[TargetsPath].exists
     /\ Len(FLines) # Len(LLines))
        => result.kind = "raised" /\ result.df = None

\* C5: from a feature file of n lines and a label file of n lines a returned
\* table has exactly n rows.
C5_RowCount ==
    (BuiltNow /\ Len(FLines) = Len(LLines))
        => Len(Table.index) = Len(FLines) /\ Len(Table.values) = Len(FLines)

\* C5's case: a table returned from two files of as many lines, several of
\* them, one line of the feature file listing no index.
C5_Witness ==
    /\ BuiltNow
    /\ Len(FLines) = Len(LLines)
    /\ Len(FLines) >= 2
    /\ \E i \in DOMAIN FLines : FLines[i] = <<>>

HasBadToken(lines) ==
    \E i \in DOMAIN lines : \E k \in DOMAIN lines[i] : ~IntValid(lines[i][k])
OffendingLine(lines) ==
    Min({i \in DOMAIN lines : \E k \in DOMAIN lines[i] : ~IntValid(lines[i][k])})
ErrorOn(lines) ==
    Preprocess(DataPreprocessorInit(FeaturesPath, TargetsPath),
               [fs EXCEPT ![FeaturesPath] = File(lines)]).error

\* C6: if a token of the feature file does not parse as an integer, the
\* invocation raises a parse error, returns no table, and the error
\* identifies the offending line: no feature file whose first offending
\* token is on another line raises the same error.
C6_ParseErrorNamesLine ==
    (runs >= 1 /\ fs[FeaturesPath].exists /\ HasBadToken(FLines)) =>
        /\ result.kind = "raised"
        /\ result.df = None
        /\ result.error.exc = "ValueError"
        /\ \A other \in Texts(MaxLines, MaxTokens) :
               (HasBadToken(other) /\ ErrorOn(other) = result.error)
                   => OffendingLine(other) = OffendingLine(FLines)

\* C7: an invocation that follows one that returned, the files unchanged in
\* between, returns the same table (same columns, rows and values) and
\* leaves the object as it was.
C7_Idempotent ==
    [][(runs >= 1 /\ runs' >= 1 /\ result.kind = "returned")
           => (result' = result /\ self' = self)]_vars

\* C7's case: a table of several rows returned by a repeated invocation on
\* unchanged files.
C7_Witness ==
    /\ runs >= 2
    /\ result.kind = "returned"
    /\ Len(Table.values) >= 2
    /\ FeatureCols(Table) # {}

\* C8: construction reads no file and leaves the stored table absent, and
\* the stored table stays absent until an invocation has returned.
C8_LazyConstruction ==
    /\ result.kind = "none" => (self.df = None /\ io = <<>>)
    /\ ~built => self.df = None

\* C8's case: the first invocation has failed on files that exist, and the
\* stored table is still absent.
C8_Witness ==
    /\ result.kind = "raised"
    /\ ~built
    /\ self.df = None
    /\ fs[FeaturesPath].exists
    /\ fs[TargetsPath].exists

\* C9 as claimed: once a table is stored, the stored table never changes.
C9_StoredTableNeverChanges ==
    [][self.df # None => self'.df = self.df]_vars

\* C9 amended: once a table is stored one stays stored, and the stored table
\* changes only in an invocation that returns, after a change of the files,
\* and then to the table that invocation returns.
C9_StoredTableFollowsBuilds ==
    [][self.df # None =>
          /\ self'.df # None
          /\ self'.df # self.df =>
                 (runs = 0 /\ result'.kind = "returned" /\ result'.df = self'.df)]_vars

\* C9's case: a table was stored, a file was removed and the next invocation
\* failed on it; the table is still stored.
C9_Witness ==
    /\ self.df # None
    /\ runs >= 1
    /\ result.kind = "raised"
    /\ result.error.exc = "FileNotFoundError"

Aborts(files) ==
    \/ ~files[FeaturesPath].exists
    \/ HasBadToken(files[FeaturesPath].lines)
    \/ ~files[TargetsPath].exists

\* C10: an invocation on a missing file or a malformed token raises; an
\* invocation that raises returns no table and leaves the stored table as
\* it was before the call.
C10_AbortLeavesNoResult ==
    [][/\ (runs' >= 1 /\ Aborts(fs')) => result'.kind = "raised"
       /\ result'.kind = "raised" =>
              (result'.df = None /\ result'.error # NoError /\ self'.df = self.df)]_vars

\* C10's case: an invocation failed on a malformed token after a table had
\* been stored.
C10_Witness ==
    /\ self.df # None
    /\ runs >= 1
    /\ result.kind = "raised"
    /\ result.error = InvalidLiteral(<<"x">>)

\* A token that writes a positive integer: no minus sign, only digits, one
\* of them not 0.
PositiveLiteral(tok) ==
    LET digits == IF tok # <<>> /\ tok[1] = "+" THEN Tail(tok) ELSE tok
    IN  /\ digits # <<>>
        /\ \A k \in DOMAIN digits : IsDigit(digits[k])
        /\ \E k \in DOMAIN digits : digits[k] # "0"
AllTokensPositive(lines) ==
    \A i \in DOMAIN lines : \A k \in DOMAIN lines[i] : PositiveLiteral(lines[i][k])

\* C11 as claimed: every feature column of a returned table has an index of
\* at least 1.
C11_ColumnsPositive ==
    BuiltNow => \A c \in FeatureCols(Table) : Table.columns[c].int >= 1

\* C11 amended: tokens are parsed as signed integers and none is rejected
\* for its value, so the feature columns of a returned table all have an
\* index of at least 1 exactly when every token of the feature file writes
\* a positive integer.
C11_ColumnsPositiveIffTokensPositive ==
    BuiltNow =>
        ((\A c \in FeatureCols(Table) : Table.columns[c].int >= 1)
             <=> AllTokensPositive(FLines))

\* C11's case: a table returned from a feature file that lists a negative
\* index beside a positive one.
C11_Witness ==
    /\ BuiltNow
    /\ ~AllTokensPositive(FLines)
    /\ \E c \in FeatureCols(Table) : Table.columns[c].int < 1
    /\ \E c \in FeatureCols(Table) : Table.columns[c].int >= 1

AllIndices(lines) == UNION {IndicesOn(lines[i]) : i \in DOMAIN lines}

\* C12: a returned table has exactly one column named "target", whatever the
\* input, its column names are pairwise distinct, and dropping "target"
\* leaves exactly the feature columns, one per index of the feature file,
\* with the 1/0 cells of the feature lines.
C12_LabelColumnApart ==
    BuiltNow =>
        LET X == Drop(Table, StrLabel("target"))
        IN  /\ Cardinality({c \in DOMAIN Table.columns :
                              Table.columns[c] = StrLabel("target")}) = 1
            /\ \A c, d \in DOMAIN Table.columns :
                   c # d => Table.columns[c] # Table.columns[d]
            /\ Len(X.columns) = Len(Table.columns) - 1
            /\ Len(X.columns) = Cardinality(AllIndices(FLines))
            /\ Range(X.columns) = {IntLabel(k) : k \in AllIndices(FLines)}
            /\ \A i \in DOMAIN FLines : \A c \in DOMAIN X.columns :
                   X.values[i][c] = Indicator(X.columns[c].int \in IndicesOn(FLines[i]))

\* C12's case: a returned table with a feature column for index -1 and a
\* label -1 in the label file.
C12_Witness ==
    /\ BuiltNow
    /\ -1 \in AllIndices(FLines)
    /\ \E i \in DOMAIN LLines : LLines[i] = << <<"-", "1">> >>
    /\ Len(Table.columns) >= 2

Opens(log, n) == Cardinality({i \in 1..n : log[i] = "open features_file"})
Closes(log, n) == Cardinality({i \in 1..n : log[i] = "close features_file"})
\* The feature file is open after the first n operations of log.
HeldOpen(log, n) == Opens(log, n) > Closes(log, n)

\* C13: an invocation that finds the feature file opens it; after every
\* invocation, returned or raised, the feature file is closed; and it has
\* been opened and closed again when the label file is read.
C13_FeatureFileScoped ==
    /\ (runs >= 1 /\ fs[FeaturesPath].exists) => Opens(io, Len(io)) >= 1
    /\ ~HeldOpen(io, Len(io))
    /\ \A r \in DOMAIN io :
           io[r] = "read targets_file" =>
               (Opens(io, r - 1) >= 1 /\ ~HeldOpen(io, r - 1))

\* C13's case: the first invocation was aborted by a malformed token, the
\* feature file having been opened.
C13_Witness ==
    /\ runs >= 1
    /\ result.kind = "raised"
    /\ result.error.msg = "invalid literal for int() with base 10"
    /\ self.df = None
    /\ Opens(io, Len(io)) >= 1

\* C14: an invocation on a feature file of zero lines returns no table: it
\* raises the ValueError of concatenating an empty list, the label file is
\* not read, and the stored table is left as it was.
C14_EmptyFeatureFileRaises ==
    [][(runs' >= 1 /\ fs'[FeaturesPath].exists /\ fs'[FeaturesPath].lines = <<>>) =>
          /\ result'.kind = "raised"
          /\ result'.df = None
          /\ result'.error.exc = "ValueError"
          /\ result'.error.msg = "No objects to concatenate"
          /\ \A k \in DOMAIN io' : io'[k] # "read targets_file"
          /\ self'.df = self.df]_vars

\* C14's case: a table was stored, the feature file was emptied, and the
\* next invocation raised although the label file holds labels.
C14_Witness ==
    /\ runs >= 1
    /\ fs[FeaturesPath].exists
    /\ FLines = <<>>
    /\ fs[TargetsPath].exists
    /\ \E i \in DOMAIN LLines : LLines[i] # <<>>
    /\ result.kind = "raised"
    /\ self.df # None

====
